---- MODULE Spec2Model ----
(***************************************************************************)
(* Model of the Illusory Line Motion toolchain:                            *)
(*   conditionGenerator.py  - the trial-condition generator (a script run  *)
(*                            top to bottom: allocate, reconcile, seed,    *)
(*                            shuffle, number, save);                      *)
(*   minimalILM.py          - the stimulus runner (instruction screen,     *)
(*                            trial loop, escape handling, data saving).   *)
(*                                                                         *)
(* Python lists are 0-based; sequences here are 1-based, so list index k   *)
(* is sequence index k + 1.  A trial record without the key "trial_num"    *)
(* is modelled with trial_num = 0 (the script numbers from 1).             *)
(***************************************************************************)
EXTENDS Integers, Sequences, FiniteSets, TLC

VARIABLES
    total_trials,   \* conditionGenerator.py: total_trials (user setting)
    seed,           \* conditionGenerator.py: seed (user setting)
    trials,         \* conditionGenerator.py: the list `trials`
    pc,             \* position of the generator script
    rng,            \* state of the process-wide generator of module random
    shuf_i,         \* random.shuffle: 1-based position its loop is at (0: not shuffling)
    output,         \* content of the CSV file written by write_csv (<<>> with written = FALSE: no file)
    written,        \* whether write_csv has written the output file
    nAppend,        \* history: iterations of the append loop so far
    nRemove,        \* history: iterations of the removal loop so far
    nFallback,      \* history: removals that took the index-0 default of next(...)
    run,            \* which invocation of the script this is (1 or 2)
    prev,           \* output file content of the previous invocation
    prevFix,        \* reconciliation iterations of the previous invocation
    r_pc,           \* minimalILM.py: position of the runner script
    r_trials,       \* minimalILM.py: `trials`, the rows read from the conditions file
    r_i,            \* minimalILM.py: loop variable i of the trial loop
    r_esc,          \* an 'escape' key press is waiting in the event buffer
    r_rows,         \* entries recorded in thisExp (addData ... nextEntry)
    r_handler,      \* calls made on thisExp that save data, in order
    r_win,          \* "open" or "closed"
    r_closedWith,   \* number of save calls made when the window was closed (-1: still open)
    r_exit          \* why the runner quit ("none" while running)

gvars == <<total_trials, seed, trials, pc, rng, shuf_i, output, written,
           nAppend, nRemove, nFallback, run, prev, prevFix>>
rvars == <<r_pc, r_trials, r_i, r_esc, r_rows, r_handler, r_win, r_closedWith, r_exit>>
vars == <<gvars, rvars>>

----------------------------------------------------------------------------
(* Bounds of the model *)

\* totals range over -MaxInvalid .. MaxTotal, plus the scenario totals
MaxTotal == 48
MaxInvalid == 2
\* seeds range over seed .. seed + MaxSeedOffset
MaxSeedOffset == 1
\* totals of the two-invocation specification range over 1 .. MaxPairTotal
MaxPairTotal == 6
\* the runner is given conditions files of 1 .. MaxRunnerTrials rows
MaxRunnerTrials == 3

----------------------------------------------------------------------------
(* conditionGenerator.py: settings and factor setup *)

DefaultTotal == 150
DefaultSeed == 42

\* totals the specification's scenarios name, besides the compiled-in one
ScenarioTotals == {100, DefaultTotal, 301}

Totals == ((0 - MaxInvalid) .. MaxTotal) \cup ScenarioTotals
Seeds == DefaultSeed .. (DefaultSeed + MaxSeedOffset)

cue_conditions == <<"cued", "uncued">>

\* keys of the dict line_conditions, in insertion (= iteration) order
line_names == <<"congruent", "incongruent", "center">>

\* The literal 0.3333333333333 is 3333333333333 / 10^13.  It is kept exact in
\* two decimal limbs, 3333333 * 10^6 + 333333, so that every product stays
\* inside 32-bit integers for |total| <= 644.  (The script multiplies in
\* binary floating point; its relative error of about 10^-16 cannot move a
\* product of this size across a rounding boundary.)
ProportionHi == 3333333
ProportionLo == 333333
line_conditions == [n \in {"congruent", "incongruent", "center"} |->
                        <<ProportionHi, ProportionLo>>]

\* the list literal of the append loop
\* variant: a choice among all three line types
AppendLinesAll == <<"congruent", "incongruent", "center">>

append_lines == <<"congruent", "incongruent">>

Trial(cue, line) == [cueCondition |-> cue, lineCondition |-> line, trial_num |-> 0]

----------------------------------------------------------------------------
(* Python built-ins used by the generator *)

\* round(t * p) for p = (hi * 10^6 + lo) / 10^13: nearest integer, ties to even.
\* \div and % are floor division and non-negative remainder, so the integer
\* part below is the floor also for negative t.
\* variant: rounding up (math.ceil in place of round)
RoundCeil(t, hi, lo) ==
    LET loProd == t * lo
        H == t * hi + (loProd \div 1000000)
        L == loProd % 1000000
    IN  IF (H % 10000000) = 0 /\ L = 0 THEN H \div 10000000 ELSE (H \div 10000000) + 1

\* variant: truncation (int in place of round)
RoundFloor(t, hi, lo) ==
    LET loProd == t * lo
        H == t * hi + (loProd \div 1000000)
    IN  H \div 10000000

Round(t, hi, lo) ==
    LET loProd == t * lo
        H == t * hi + (loProd \div 1000000)
        L == loProd % 1000000
        ip == H \div 10000000
        fh == H % 10000000
    IN  IF fh > 5000000 \/ (fh = 5000000 /\ L > 0) THEN ip + 1
        ELSE IF fh < 5000000 THEN ip
        ELSE IF ip % 2 = 0 THEN ip ELSE ip + 1

\* n_line and n_per_cue of the allocation loop
NLine(total, name) == Round(total, line_conditions[name][1], line_conditions[name][2])

NPerCue(total, name) == NLine(total, name) \div Len(cue_conditions)

\* [x for _ in range(n)]: empty when n <= 0
Repeat(x, n) == [k \in 1 .. (IF n > 0 THEN n ELSE 0) |-> x]

RECURSIVE Concat(_)
Concat(ss) == IF ss = <<>> THEN <<>> ELSE Head(ss) \o Concat(Tail(ss))

\* the records the allocation loop appends, in order
Allocated(total) ==
    Concat([li \in 1 .. Len(line_names) |->
        Concat([ci \in 1 .. Len(cue_conditions) |->
            Repeat(Trial(cue_conditions[ci], line_names[li]),
                   NPerCue(total, line_names[li]))])])

IsCenter(t) == t.lineCondition = "center"

RemoveAt(s, k) == [m \in 1 .. (Len(s) - 1) |-> IF m < k THEN s[m] ELSE s[m + 1]]

\* next((i for i, t in enumerate(trials) if t["lineCondition"] == "center"), 0),
\* as a 1-based position
\* variant: always the default, index 0
FirstCenterNoSearch(s) == 1

FirstCenter(s) ==
    IF \E k \in 1 .. Len(s) : IsCenter(s[k])
    THEN CHOOSE k \in 1 .. Len(s) :
            IsCenter(s[k]) /\ \A m \in 1 .. (k - 1) : ~IsCenter(s[m])
    ELSE 1

\* the loop conditions of the two reconciliation loops
\* variant: a loop condition that stops one record early
AppendMoreOffByOne(len, total) == len + 1 < total

AppendMore(len, total) == len < total

RemoveMore(len, total) == len > total

----------------------------------------------------------------------------
(* Module random.  The generator's state is unknown until random.seed is   *)
(* called (it is seeded from operating-system entropy): every draw is then *)
(* possible.  After random.seed(s) the draws are a function of s; the      *)
(* Mersenne Twister is stood in for by a 16-bit linear congruential        *)
(* generator, which keeps what the script relies on: same seed, same draws.*)

Unseeded == 0 - 1
RngModulus == 65536
RngMultiplier == 25173
RngIncrement == 13849

RngStep(g) == (RngMultiplier * g + RngIncrement) % RngModulus

\* random.seed(s) called on a generator in state g
\* variant: the call to random.seed left out
SeedIgnored(s, g) == g

SeedState(s, g) == s % RngModulus

\* _randbelow(n): the possible <<value, next state>> pairs
RandBelow(g, n) ==
    IF g = Unseeded
    THEN {<<v, Unseeded>> : v \in 0 .. (n - 1)}
    ELSE {<<(RngStep(g) * n) \div RngModulus, RngStep(g)>>}

Swap(s, a, b) == [s EXCEPT ![a] = s[b], ![b] = s[a]]

\* random.shuffle(x): for i in reversed(range(1, len(x))): j = randbelow(i + 1);
\* x[i], x[j] = x[j], x[i].  One iteration, at 1-based position i, from
\* generator state g: the possible <<list, generator state>> pairs.
ShuffleSwap(x, i, g) == {<<Swap(x, i, d[1] + 1), d[2]>> : d \in RandBelow(g, i)}

\* for i, t in enumerate(trials, 1): t["trial_num"] = i
\* variant: enumerate(trials) without the start value 1
NumberedFromZero(s) == [k \in 1 .. Len(s) |-> [s[k] EXCEPT !.trial_num = k - 1]]

Numbered(s) == [k \in 1 .. Len(s) |-> [s[k] EXCEPT !.trial_num = k]]

----------------------------------------------------------------------------
(* conditionGenerator.py, one action per step of the script *)

GenInit ==
    /\ seed \in Seeds
    /\ trials = <<>>
    /\ pc = "alloc"
    /\ rng = Unseeded
    /\ shuf_i = 0
    /\ output = <<>>
    /\ written = FALSE
    /\ nAppend = 0
    /\ nRemove = 0
    /\ nFallback = 0
    /\ run = 1
    /\ prev = <<>>
    /\ prevFix = 0

\* lines 42-52: trials = []; the allocation loop
Allocate ==
    /\ pc = "alloc"
    /\ trials' = Allocated(total_trials)
    /\ pc' = "append"
    /\ UNCHANGED <<shuf_i, total_trials, seed, rng, output, written, nAppend, nRemove,
                   nFallback, run, prev, prevFix, rvars>>

\* lines 57-61: one iteration of the append loop
AppendStep ==
    /\ pc = "append"
    /\ AppendMore(Len(trials), total_trials)
    /\ \E c \in RandBelow(rng, Len(cue_conditions)) :
       \E l \in RandBelow(c[2], Len(append_lines)) :
          /\ trials' = Append(trials, Trial(cue_conditions[c[1] + 1], append_lines[l[1] + 1]))
          /\ rng' = l[2]
    /\ nAppend' = nAppend + 1
    /\ UNCHANGED <<shuf_i, total_trials, seed, pc, output, written, nRemove, nFallback,
                   run, prev, prevFix, rvars>>

\* line 57: the append loop's condition is false
AppendExit ==
    /\ pc = "append"
    /\ ~AppendMore(Len(trials), total_trials)
    /\ pc' = "remove"
    /\ UNCHANGED <<shuf_i, total_trials, seed, trials, rng, output, written, nAppend,
                   nRemove, nFallback, run, prev, prevFix, rvars>>

\* lines 62-65: one iteration of the removal loop; del trials[idx] raises
\* IndexError on an empty list, which ends the script
RemoveStep ==
    /\ pc = "remove"
    /\ RemoveMore(Len(trials), total_trials)
    /\ nRemove' = nRemove + 1
    /\ nFallback' = IF \E k \in 1 .. Len(trials) : IsCenter(trials[k])
                    THEN nFallback ELSE nFallback + 1
    /\ IF FirstCenter(trials) \in 1 .. Len(trials)
       THEN /\ trials' = RemoveAt(trials, FirstCenter(trials))
            /\ pc' = "remove"
       ELSE /\ trials' = trials
            /\ pc' = "crashed"
    /\ UNCHANGED <<shuf_i, total_trials, seed, rng, output, written, nAppend,
                   run, prev, prevFix, rvars>>

\* line 62: the removal loop's condition is false
RemoveExit ==
    /\ pc = "remove"
    /\ ~RemoveMore(Len(trials), total_trials)
    /\ pc' = "seed"
    /\ UNCHANGED <<shuf_i, total_trials, seed, trials, rng, output, written, nAppend,
                   nRemove, nFallback, run, prev, prevFix, rvars>>

\* line 70: random.seed(seed); the loop of random.shuffle will start at the
\* last position of the list
SeedRng ==
    /\ pc = "seed"
    /\ rng' = SeedState(seed, rng)
    /\ shuf_i' = Len(trials)
    /\ pc' = "shuffle"
    /\ UNCHANGED <<total_trials, seed, trials, output, written, nAppend, nRemove,
                   nFallback, run, prev, prevFix, rvars>>

\* line 71: random.shuffle(trials), one iteration of its loop
ShuffleStep ==
    /\ pc = "shuffle"
    /\ shuf_i >= 2
    /\ \E r \in ShuffleSwap(trials, shuf_i, rng) :
          /\ trials' = r[1]
          /\ rng' = r[2]
    /\ shuf_i' = shuf_i - 1
    /\ UNCHANGED <<total_trials, seed, pc, output, written, nAppend, nRemove,
                   nFallback, run, prev, prevFix, rvars>>

\* line 71: random.shuffle(trials) returns
ShuffleExit ==
    /\ pc = "shuffle"
    /\ shuf_i < 2
    /\ pc' = "number"
    /\ UNCHANGED <<total_trials, seed, trials, rng, shuf_i, output, written, nAppend,
                   nRemove, nFallback, run, prev, prevFix, rvars>>

\* lines 72-73: the numbering loop
Number ==
    /\ pc = "number"
    /\ trials' = Numbered(trials)
    /\ pc' = "save"
    /\ UNCHANGED <<shuf_i, total_trials, seed, rng, output, written, nAppend, nRemove,
                   nFallback, run, prev, prevFix, rvars>>

\* lines 78-79: df = pl.DataFrame(trials); df.write_csv(output_path)
Save ==
    /\ pc = "save"
    /\ output' = trials
    /\ written' = TRUE
    /\ pc' = "done"
    /\ UNCHANGED <<shuf_i, total_trials, seed, trials, rng, nAppend, nRemove,
                   nFallback, run, prev, prevFix, rvars>>

\* the script is invoked a second time with the same settings: a new process,
\* whose lists are empty and whose generator is unseeded again
Rerun ==
    /\ pc = "done"
    /\ run = 1
    /\ run' = 2
    /\ prev' = output
    /\ prevFix' = nAppend + nRemove
    /\ trials' = <<>>
    /\ pc' = "alloc"
    /\ rng' = Unseeded
    /\ nAppend' = 0
    /\ nRemove' = 0
    /\ nFallback' = 0
    /\ shuf_i' = 0
    /\ UNCHANGED <<total_trials, seed, output, written, rvars>>

GenNext ==
    \/ Allocate
    \/ AppendStep
    \/ AppendExit
    \/ RemoveStep
    \/ RemoveExit
    \/ SeedRng
    \/ ShuffleStep
    \/ ShuffleExit
    \/ Number
    \/ Save

\* the runner at rest, for the specifications of the generator
RunnerIdle ==
    /\ r_pc = "idle"
    /\ r_trials = <<>>
    /\ r_i = 0
    /\ r_esc = FALSE
    /\ r_rows = <<>>
    /\ r_handler = <<>>
    /\ r_win = "closed"
    /\ r_closedWith = 0 - 1
    /\ r_exit = "none"

Init ==
    /\ total_trials \in Totals
    /\ GenInit
    /\ RunnerIdle

Next == GenNext

Spec == Init /\ [][Next]_vars

\* two invocations of the script, one after the other, with the same settings
PairTotals == 1 .. MaxPairTotal

InitPair ==
    /\ total_trials \in PairTotals
    /\ GenInit
    /\ RunnerIdle

NextPair ==
    \/ GenNext
    \/ Rerun

SpecPair == InitPair /\ [][NextPair]_vars

----------------------------------------------------------------------------
(* minimalILM.py.  The window, the keyboard buffer and the experiment      *)
(* handler are PsychoPy objects; the model keeps the calls the script      *)
(* makes on them.  thisExp.abort() is recorded as a saving call, as the    *)
(* script's own comment on that line describes it.                         *)

\* the rows a conditions file can hold
ConditionRows == [cueCondition : {"cued", "uncued"},
                  lineCondition : {"congruent", "incongruent", "center"}]

ConditionFiles == UNION {[1 .. n -> ConditionRows] : n \in 0 .. MaxRunnerTrials}

\* lines 146-151: draw_instantly of a row
DrawInstantly(row) == row.lineCondition \notin {"congruent", "incongruent"}

\* the calls on thisExp that the script makes on each way out
AbortCalls == <<"abort">>
EndCalls == <<"saveAsWideText", "saveAsPickle">>
AnimEscapeCalls == <<>>

RunnerInit ==
    /\ r_pc = "instructions"
    /\ r_trials \in ConditionFiles
    /\ r_i = 0
    /\ r_esc = FALSE
    /\ r_rows = <<>>
    /\ r_handler = <<>>
    /\ r_win = "open"
    /\ r_closedWith = 0 - 1
    /\ r_exit = "none"

\* win.close(); core.quit() after the calls `calls` on thisExp
Quit(calls, why) ==
    /\ r_handler' = r_handler \o calls
    /\ r_closedWith' = Len(r_handler \o calls)
    /\ r_win' = "closed"
    /\ r_exit' = why
    /\ r_pc' = "quit"

\* the participant presses ESC: the key press waits in the event buffer
PressEscape ==
    /\ r_pc \notin {"idle", "quit"}
    /\ r_esc = FALSE
    /\ r_esc' = TRUE
    /\ UNCHANGED <<r_pc, r_trials, r_i, r_rows, r_handler, r_win, r_closedWith,
                   r_exit, gvars>>

\* line 129: event.waitKeys(keyList=['space', 'escape']) clears the buffer,
\* waits for one of the two keys and takes it out of the buffer
InstructionsWait ==
    /\ r_pc = "instructions"
    /\ r_esc' = FALSE
    /\ r_pc' = "instructions_check"
    /\ UNCHANGED <<r_trials, r_i, r_rows, r_handler, r_win, r_closedWith, r_exit, gvars>>

\* lines 132-134: if event.getKeys(['escape']): win.close(); core.quit()
InstructionsCheck ==
    /\ r_pc = "instructions_check"
    /\ IF r_esc
       THEN /\ Quit(<<>>, "escape_instructions")
            /\ r_esc' = FALSE
            /\ UNCHANGED <<r_trials, r_i, r_rows>>
       ELSE /\ r_pc' = "loop"
            /\ UNCHANGED <<r_trials, r_i, r_esc, r_rows, r_handler, r_win,
                           r_closedWith, r_exit>>
    /\ UNCHANGED gvars

\* lines 137-182: the next row of the loop, its stimuli and the three waits
TrialBegin ==
    /\ r_pc = "loop"
    /\ r_i < Len(r_trials)
    /\ r_i' = r_i + 1
    /\ r_pc' = "animation"
    /\ UNCHANGED <<r_trials, r_esc, r_rows, r_handler, r_win, r_closedWith, r_exit, gvars>>

\* lines 184-211: one iteration of the animation loop; whether the line is
\* complete (progress >= 1.0) depends on the clock
AnimationFrame ==
    /\ r_pc = "animation"
    /\ IF r_esc
       THEN /\ Quit(AnimEscapeCalls, "escape_animation")
            /\ r_esc' = FALSE
       ELSE /\ \E complete \in BOOLEAN :
                r_pc' = IF DrawInstantly(r_trials[r_i]) \/ complete
                        THEN "response" ELSE "animation"
            /\ UNCHANGED <<r_esc, r_handler, r_win, r_closedWith, r_exit>>
    /\ UNCHANGED <<r_trials, r_i, r_rows, gvars>>

\* lines 214-238: waitKeys(maxWait=2, keyList=['q', 'p', 'escape']) clears the
\* buffer and gives the first key or None; escape quits, anything else is
\* recorded as one entry of thisExp
Response ==
    /\ r_pc = "response"
    /\ r_esc' = FALSE
    /\ \E key \in {"q", "p", "escape", "None"} :
          IF key = "escape"
          THEN /\ Quit(AbortCalls, "escape_response")
               /\ UNCHANGED r_rows
          ELSE /\ r_rows' = Append(r_rows,
                      [trial_n |-> r_i,
                       cueCondition |-> r_trials[r_i].cueCondition,
                       lineCondition |-> r_trials[r_i].lineCondition,
                       response |-> key])
               /\ r_pc' = "loop"
               /\ UNCHANGED <<r_handler, r_win, r_closedWith, r_exit>>
    /\ UNCHANGED <<r_trials, r_i, gvars>>

\* lines 241-245: the loop is over; save, close the window, quit
EndExperiment ==
    /\ r_pc = "loop"
    /\ r_i >= Len(r_trials)
    /\ Quit(EndCalls, "end")
    /\ UNCHANGED <<r_trials, r_i, r_esc, r_rows, gvars>>

\* the generator at rest, for the specification of the runner
GenIdle ==
    /\ total_trials = DefaultTotal
    /\ seed = DefaultSeed
    /\ trials = <<>>
    /\ pc = "idle"
    /\ rng = Unseeded
    /\ shuf_i = 0
    /\ output = <<>>
    /\ written = FALSE
    /\ nAppend = 0
    /\ nRemove = 0
    /\ nFallback = 0
    /\ run = 1
    /\ prev = <<>>
    /\ prevFix = 0

InitRunner ==
    /\ GenIdle
    /\ RunnerInit

NextRunner ==
    \/ PressEscape
    \/ InstructionsWait
    \/ InstructionsCheck
    \/ TrialBegin
    \/ AnimationFrame
    \/ Response
    \/ EndExperiment

SpecRunner == InitRunner /\ [][NextRunner]_vars

----------------------------------------------------------------------------
(* Properties of the generator *)

\* the script is past the reconciliation loops
Reconciled == pc \in {"seed", "shuffle", "number", "save", "done"}

\* the list is final: shuffled and numbered
Final == pc \in {"save", "done"}

PairCount(s, cue, line) ==
    Cardinality({k \in 1 .. Len(s) :
                    s[k].cueCondition = cue /\ s[k].lineCondition = line})

LineCount(s, line) == Cardinality({k \in 1 .. Len(s) : s[k].lineCondition = line})

CueSet == {"cued", "uncued"}
LineSet == {"congruent", "incongruent", "center"}

\* every category got at least one record per cue level in the allocation
AllocatedEverywhere(total) == \A line \in LineSet : NPerCue(total, line) >= 1

\* C1: for every positive total the script gets past reconciliation without
\* crashing or getting stuck, and from then on the list (and the file written
\* from it) holds exactly total records, whether records were appended or
\* removed.
C1_ExactLength ==
    total_trials > 0 =>
        /\ pc # "crashed"
        /\ (pc = "done" \/ ENABLED GenNext)
        /\ (Reconciled => Len(trials) = total_trials)
        /\ (written => Len(output) = total_trials)

C1_Witness ==
    /\ pc = "done"
    /\ total_trials = 100
    /\ nAppend = 4
    /\ Len(output) = 100

\* C2: after numbering, position i of the list carries trial_num = i, so the
\* trial_num values are exactly 1 .. total, each once.
C2_Numbering ==
    (total_trials > 0 /\ Final) =>
        /\ Len(trials) = total_trials
        /\ \A i \in 1 .. Len(trials) : trials[i].trial_num = i
        /\ {trials[i].trial_num : i \in 1 .. Len(trials)} = 1 .. total_trials
        /\ (written => output = trials)

C2_Witness ==
    /\ pc = "done"
    /\ nRemove = 1
    /\ total_trials = 11
    /\ output[11].trial_num = 11
    /\ output[1].trial_num = 1

\* C3 as stated: whenever every category was allocated at least one record
\* per cue level, all six (cue, line) pairs are in the final list.
C3_AllPairsPresent ==
    (total_trials > 0 /\ AllocatedEverywhere(total_trials) /\ Final) =>
        \A cue \in CueSet : \A line \in LineSet : PairCount(trials, cue, line) >= 1

\* C3 amended: under the same precondition the five pairs other than
\* (cued, center) are always in the final list, and (cued, center) is in it
\* exactly when total is not 5: at total = 5 the removal loop deletes the only
\* (cued, center) record.
C3_PairsPresentExceptRemoved ==
    (total_trials > 0 /\ AllocatedEverywhere(total_trials) /\ Final) =>
        /\ \A cue \in CueSet : \A line \in LineSet :
              (cue # "cued" \/ line # "center") => PairCount(trials, cue, line) >= 1
        /\ (PairCount(trials, "cued", "center") >= 1) <=> (total_trials # 5)

C3_Witness ==
    /\ pc = "done"
    /\ total_trials = 5
    /\ nRemove = 1
    /\ PairCount(output, "cued", "center") = 0
    /\ PairCount(output, "uncued", "center") = 1

\* C4 as stated: in the final list every line condition with an even number
\* of records has as many cued as uncued records.
C4_CueBalanced ==
    (total_trials > 0 /\ Final) =>
        \A line \in LineSet :
            LineCount(trials, line) % 2 = 0 =>
                PairCount(trials, "cued", line) = PairCount(trials, "uncued", line)

C6_ReproducibleWithoutCorrection ==
    /\ (pc \in {"alloc", "append", "remove"} => rng = Unseeded)
    /\ (run = 2 /\ pc = "done" /\ prevFix = 0 /\ nAppend + nRemove = 0) => output = prev

C6_Witness ==
    /\ run = 2
    /\ pc = "done"
    /\ total_trials = 6
    /\ prevFix = 0
    /\ nAppend + nRemove = 0
    /\ output = prev
    /\ output # Numbered(Allocated(total_trials))

\* C7 as stated: with a non-positive total the script stops before the
\* allocation: it never reaches the reconciliation loops or anything after
\* them, and writes no file.
C7_FailsFast ==
    total_trials <= 0 =>
        /\ pc \notin {"append", "remove", "seed", "shuffle", "number", "save",
                      "done", "crashed"}
        /\ ~written

\* C9: the append loop only adds congruent / incongruent records after the
\* allocated ones, so the number of center records never exceeds the
\* allocation, and for totals 1 .. 4 the final list has no center record.
C9_AppendOnlyCongruentIncongruent ==
    total_trials > 0 =>
        /\ (pc = "append" =>
              /\ Len(trials) = Len(Allocated(total_trials)) + nAppend
              /\ SubSeq(trials, 1, Len(Allocated(total_trials))) = Allocated(total_trials)
              /\ \A k \in (Len(Allocated(total_trials)) + 1) .. Len(trials) :
                    /\ trials[k].lineCondition \in {"congruent", "incongruent"}
                    /\ trials[k].cueCondition \in CueSet)
        /\ LineCount(trials, "center") <= 2 * NPerCue(total_trials, "center")
        /\ ((total_trials \in 1 .. 4 /\ Final) =>
              \A k \in 1 .. Len(trials) :
                  trials[k].lineCondition \in {"congruent", "incongruent"})

C9_Witness ==
    /\ pc = "done"
    /\ total_trials = 4
    /\ nAppend = 4
    /\ LineCount(output, "congruent") = 1
    /\ LineCount(output, "incongruent") = 3

----------------------------------------------------------------------------
(* Properties of the runner *)

\* C8 as stated: whenever the runner quits on an escape key detected after
\* the trial loop started, a saving call on the experiment handler was made
\* before the window was closed.
C8_EscapeSavesData ==
    r_exit \in {"escape_animation", "escape_response"} => r_closedWith >= 1

====
